---- MODULE Spec2Model ----
(***************************************************************************)
(* Job queue (api/job_queue.py), pipeline manager (api/pipeline_manager.py)*)
(* and the request handlers that drive them (api/main.py), as one state    *)
(* machine over the asyncio event loop and the executor threads.           *)
(*                                                                         *)
(* One action is one uninterrupted run of a coroutine between two          *)
(* suspension points, or one step of a procedure running in an executor    *)
(* thread.  asyncio.wait_for is modelled as CPython up to 3.11 runs it:    *)
(* the awaited coroutine is its own task, so the awaiting coroutine        *)
(* resumes one loop iteration after the inner one finished; on CPython     *)
(* 3.12 and later the two steps are consecutive.                           *)
(***************************************************************************)
EXTENDS Integers, Sequences, FiniteSets, TLC

\* ---------------------------------------------------------------- bounds
MaxSize == 2
MaxJobs == 2
MaxTime == 2
MaxReqs == 1
MaxCallers == 2
MaxThreads == 2
MaxApiJobs == 1

\* ------------------------------------------------------------- constants
\* JobQueue.cleanup_age_seconds, in clock ticks
cleanup_age_seconds == 1

\* MAX_QUEUE_SIZE of api/main.py, read from the environment
MAX_QUEUE_SIZE == 1

\* Optional[T]: None, or a value
None == <<>>
Some(x) == <<x>>

\* PipelineManager.MODEL_CONFIGS keys
MODEL_CONFIGS == {"4-step", "8-step"}

\* JobStatus
QUEUED == "queued"
PROCESSING == "processing"
COMPLETED == "completed"
FAILED == "failed"
CANCELLED == "cancelled"

JobIds == 1..MaxJobs

\* what a processing function hands to complete_job / fail_job
ResultPaths == {"/out/a.png"}
ResultSeeds == {42}
ErrorTexts == {"boom"}
NoCallbackError == "No processing callback configured"

\* what a caller from outside the worker hands to them
CallPaths == {"/out/b.png"}
CallSeeds == {7}
CallErrors == {"late"}

VARIABLES
    \* JobQueue
    max_size,           \* self.max_size
    queue,              \* self.queue: the FIFO's entries (job ids), oldest first
    putters,            \* self.queue: submit_job calls suspended in put()
    jobs,               \* self.jobs: job_id -> Job
    current_job,        \* self.current_job (its job_id)
    process_callback,   \* self.process_callback: "none", "generic" or "main"
    running,            \* self._running
    wjob,               \* _process_queue's local `job`
    next_id,            \* the next uuid4 submit_job draws
    ret,                \* what the call that ended in this step returned or raised
    now,                \* datetime.now()
    \* PipelineManager
    pipeline,           \* self.pipeline: None, "deleted" (after `del`), or the
                        \* key the handle was built for
    current_model,      \* self.current_model
    is_loading,         \* self.is_loading
    is_generating,      \* self.is_generating
    model_lock,         \* self._model_lock
    generation_lock,    \* self._generation_lock
    threads,            \* the executor's threads: what each is running
    \* tasks of the event loop
    pc,                 \* where each task is suspended
    arg,                \* the model_key of the gate call a task is in
    kind                \* what a request task is serving

qvars == <<max_size, queue, putters, jobs, current_job, process_callback,
           running, wjob, next_id, ret, now>>
gvars == <<pipeline, current_model, is_loading, is_generating, model_lock,
           generation_lock, threads>>
tvars == <<arg, kind>>
vars == <<qvars, gvars, tvars, pc>>

\* the requests the server handles at a time, and the callers of a
\* PipelineManager taken alone
Reqs == {"r" \o ToString(i) : i \in 1..MaxReqs}
Callers == {"c" \o ToString(i) : i \in 1..MaxCallers}
Tasks == {"worker", "cleanup", "stopper", "startup"} \cup Reqs \cup Callers
ThreadIds == 1..MaxThreads

\* ------------------------------------------------------------------ Job
Job(model, position, t) ==
    [status |-> QUEUED, model |-> model, created_at |-> t,
     started_at |-> None, completed_at |-> None, result_path |-> None,
     result_seed |-> None, error |-> None, position |-> position]

Put(f, k, v) == [x \in (DOMAIN f) \cup {k} |-> IF x = k THEN v ELSE f[x]]
Drop(f, S) == [x \in (DOMAIN f) \ S |-> f[x]]

\* ------------------------------------------------------- asyncio.Queue
\* mutant: the FIFO is built one entry too large
queue_maxsize_plus_one == max_size + 1

\* asyncio.Queue(maxsize=max_size)
queue_maxsize == max_size

\* asyncio.Queue.full(): a maxsize <= 0 means no limit
queue_full(q) == queue_maxsize > 0 /\ Len(q) >= queue_maxsize

\* mutant: the newest entry is taken
queue_get_newest(q) == <<q[Len(q)], SubSeq(q, 1, Len(q) - 1)>>

\* asyncio.Queue.get(): the entry taken and the entries left
queue_get(q) == <<Head(q), Tail(q)>>

\* ------------------------------------------------------------- JobQueue
\* whether submit_job refuses the call
submit_refused(q) == queue_full(q)

\* _update_queue_positions: the QUEUED jobs of self.jobs, sorted by
\* created_at (a stable sort over the dict's insertion order), numbered from 1
QueuedIds(js) == {j \in DOMAIN js : js[j].status = QUEUED}

SortsBefore(js, a, b) ==
    \/ js[a].created_at < js[b].created_at
    \/ js[a].created_at = js[b].created_at /\ a < b

\* mutant: enumerate() without start=1
update_queue_positions_from_zero(js) ==
    [j \in DOMAIN js |->
        IF js[j].status = QUEUED
        THEN [js[j] EXCEPT !.position =
                Cardinality({k \in QueuedIds(js) : SortsBefore(js, k, j)})]
        ELSE js[j]]

update_queue_positions(js) ==
    [j \in DOMAIN js |->
        IF js[j].status = QUEUED
        THEN [js[j] EXCEPT !.position =
                1 + Cardinality({k \in QueuedIds(js) : SortsBefore(js, k, j)})]
        ELSE js[j]]

\* mutant: a job that is already COMPLETED or FAILED is left as it is
complete_job_once(js, id, path, seed, t) ==
    IF id \in DOMAIN js /\ js[id].status \notin {COMPLETED, FAILED}
    THEN [js EXCEPT ![id].status = COMPLETED, ![id].completed_at = Some(t),
                    ![id].result_path = Some(path), ![id].result_seed = Some(seed)]
    ELSE js

\* mutant: the seed that was used is not recorded
complete_job_forgets_seed(js, id, path, seed, t) ==
    IF id \in DOMAIN js
    THEN [js EXCEPT ![id].status = COMPLETED, ![id].completed_at = Some(t),
                    ![id].result_path = Some(path)]
    ELSE js

\* mutant: any terminal transition of a tracked job clears current_job
terminal_current_always_clears(js, cur, id) ==
    IF id \in DOMAIN js THEN None ELSE cur

\* complete_job / fail_job: the new self.jobs and the new self.current_job
complete_job_jobs(js, id, path, seed, t) ==
    IF id \in DOMAIN js
    THEN [js EXCEPT ![id].status = COMPLETED, ![id].completed_at = Some(t),
                    ![id].result_path = Some(path), ![id].result_seed = Some(seed)]
    ELSE js

\* mutant: the error text is not recorded
fail_job_no_text(js, id, error, t) ==
    IF id \in DOMAIN js
    THEN [js EXCEPT ![id].status = FAILED, ![id].completed_at = Some(t)]
    ELSE js

\* mutant: a failed job is put back to QUEUED for a retry
fail_job_requeues(js, id, error, t) ==
    IF id \in DOMAIN js
    THEN [js EXCEPT ![id].status = QUEUED, ![id].error = Some(error)]
    ELSE js

fail_job_jobs(js, id, error, t) ==
    IF id \in DOMAIN js
    THEN [js EXCEPT ![id].status = FAILED, ![id].completed_at = Some(t),
                    ![id].error = Some(error)]
    ELSE js

terminal_current(js, cur, id) ==
    IF id \in DOMAIN js /\ cur = Some(id) THEN None ELSE cur

\* mutant: the dequeued job becomes PROCESSING and started_at is not set
begin_processing_unstamped(js, id, t) ==
    update_queue_positions(
        IF id \in DOMAIN js
        THEN [js EXCEPT ![id].status = PROCESSING]
        ELSE js)

\* _process_queue, lines 187-193: the dequeued job becomes PROCESSING and
\* current, the remaining QUEUED jobs are renumbered
begin_processing(js, id, t) ==
    update_queue_positions(
        IF id \in DOMAIN js
        THEN [js EXCEPT ![id].status = PROCESSING, ![id].started_at = Some(t)]
        ELSE js)

\* `while self._running` at the top of _process_queue
\* ("none" stands for no task and for a task that has ended)
loop_pc == IF running THEN "poll" ELSE "none"

\* `not self._worker_task or self._worker_task.done()`
WorkerDone == pc["worker"] = "none"

\* mutant: the sweep looks at the age of a job since created_at, whatever
\* its status
to_remove_by_age_alone(js, t) ==
    {j \in DOMAIN js : t - js[j].created_at > cleanup_age_seconds}

\* mutant: the sweep removes every terminal job, whatever its age
to_remove_every_terminal(js, t) ==
    {j \in DOMAIN js :
        js[j].status \in {COMPLETED, FAILED} /\ js[j].completed_at # None}

\* mutant: the sweep looks for COMPLETED jobs only
to_remove_completed_only(js, t) ==
    {j \in DOMAIN js :
        /\ js[j].status = COMPLETED
        /\ js[j].completed_at # None
        /\ t - js[j].completed_at[1] > cleanup_age_seconds}

\* get_job: the tracked Job, or None
get_job(js, id) == IF id \in DOMAIN js THEN Some(js[id]) ELSE None

\* the jobs a sweep of _cleanup_old_jobs removes
to_remove(js, t) ==
    {j \in DOMAIN js :
        /\ js[j].status \in {COMPLETED, FAILED}
        /\ js[j].completed_at # None
        /\ t - js[j].completed_at[1] > cleanup_age_seconds}

\* ------------------------------------------------- executor and locks
\* an executor thread with nothing to run
IdleThread ==
    [kind |-> "idle", key |-> "None", pc |-> "idle", owner |-> "None",
     res |-> "None", pipe |-> "None"]

\* asyncio.Lock(): unlocked, nobody waiting
FreeLock == [locked |-> FALSE, waiters |-> <<>>]

\* asyncio.Lock.acquire() returns at once only when the lock is free and
\* nobody waits for it; otherwise the caller queues behind the waiters
AcquireFree(lock) == ~lock.locked /\ lock.waiters = <<>>

\* the waiter the last release() woke: it takes the lock when it runs
Woken(lock, t) == ~lock.locked /\ lock.waiters # <<>> /\ Head(lock.waiters) = t

Without(seq, t) == SelectSeq(seq, LAMBDA x : x # t)

\* the PipelineManager's fields, the threads and the tasks' places as one
\* value, so that a coroutine's run through several calls is one step;
\* out is how the last call ended: "pending" when it suspended
Gate ==
    [pipeline |-> pipeline, current_model |-> current_model,
     is_loading |-> is_loading, is_generating |-> is_generating,
     model_lock |-> model_lock, generation_lock |-> generation_lock,
     threads |-> threads, pc |-> pc, arg |-> arg, out |-> "pending"]

SetGate(S) ==
    /\ pipeline' = S.pipeline
    /\ current_model' = S.current_model
    /\ is_loading' = S.is_loading
    /\ is_generating' = S.is_generating
    /\ model_lock' = S.model_lock
    /\ generation_lock' = S.generation_lock
    /\ threads' = S.threads
    /\ pc' = S.pc
    /\ arg' = S.arg

FreeSlots(S) == {i \in ThreadIds : S.threads[i].kind = "idle"}

\* loop.run_in_executor(None, f, key): the call goes to a free thread;
\* "blocked" marks a step the bound on threads leaves out
run_in_executor(S, k, key, t) ==
    IF FreeSlots(S) = {}
    THEN [S EXCEPT !.out = "blocked"]
    ELSE LET i == CHOOSE i \in FreeSlots(S) : \A j \in FreeSlots(S) : i <= j IN
         [S EXCEPT !.threads[i] =
             [kind |-> k, key |-> key, pc |-> IF k = "load" THEN "l0" ELSE "g0",
              owner |-> t, res |-> "None", pipe |-> "None"]]

ThreadOf(S, t) == CHOOSE i \in ThreadIds : S.threads[i].owner = t

\* the thread's call has returned or raised and its awaiter has not resumed
ThreadDone(S, t) ==
    \E i \in ThreadIds : S.threads[i].owner = t /\ S.threads[i].pc = "done"

\* a thread is inside _load_model_sync / _generate_image_sync
Executing(th, k) == th.kind = k /\ th.pc \notin {"idle", "done"}

\* the awaiter of a thread's call goes away: a call the executor has not
\* begun is dropped when `dropped`, a call under way goes on with nobody
\* waiting for it
Orphan(S, t, dropped) ==
    LET i == ThreadOf(S, t) IN
    IF S.threads[i].pc = "done" \/ (dropped /\ S.threads[i].pc \in {"l0", "g0"})
    THEN [S EXCEPT !.threads[i] = IdleThread]
    ELSE [S EXCEPT !.threads[i].owner = "None"]

\* --------------------------------------------------- PipelineManager
\* load_model line 95, `self.current_model == model_key and self.pipeline is
\* not None`, with the handle present
load_model_cached(S, key) == S.current_model = key /\ S.pipeline # "None"

\* mutant: the key is validated after is_loading has been set, outside
\* the try whose finally resets it
load_model_body_validates_late(S, t, key) ==
    IF key \notin MODEL_CONFIGS
    THEN [S EXCEPT !.is_loading = TRUE, !.model_lock.locked = FALSE,
                   !.out = "ValueError", !.pc[t] = "ret", !.arg[t] = "None"]
    ELSE IF S.current_model = key /\ S.pipeline = "deleted"
    THEN [S EXCEPT !.model_lock.locked = FALSE, !.out = "AttributeError",
                   !.pc[t] = "ret", !.arg[t] = "None"]
    ELSE IF load_model_cached(S, key)
    THEN [S EXCEPT !.model_lock.locked = FALSE, !.out = "ok",
                   !.pc[t] = "ret", !.arg[t] = "None"]
    ELSE run_in_executor(
            [S EXCEPT !.is_loading = TRUE, !.pc[t] = "lm_wait", !.arg[t] = key],
            "load", key, t)

\* mutant: no cache test, every valid key is loaded again
load_model_body_reloads(S, t, key) ==
    IF key \notin MODEL_CONFIGS
    THEN [S EXCEPT !.model_lock.locked = FALSE, !.out = "ValueError",
                   !.pc[t] = "ret", !.arg[t] = "None"]
    ELSE run_in_executor(
            [S EXCEPT !.is_loading = TRUE, !.pc[t] = "lm_wait", !.arg[t] = key],
            "load", key, t)

\* load_model lines 91-104, entered with the model lock held
load_model_body(S, t, key) ==
    IF key \notin MODEL_CONFIGS
    THEN [S EXCEPT !.model_lock.locked = FALSE, !.out = "ValueError",
                   !.pc[t] = "ret", !.arg[t] = "None"]
    ELSE IF S.current_model = key /\ S.pipeline = "deleted"
    THEN [S EXCEPT !.model_lock.locked = FALSE, !.out = "AttributeError",
                   !.pc[t] = "ret", !.arg[t] = "None"]
    ELSE IF load_model_cached(S, key)
    THEN [S EXCEPT !.model_lock.locked = FALSE, !.out = "ok",
                   !.pc[t] = "ret", !.arg[t] = "None"]
    ELSE run_in_executor(
            [S EXCEPT !.is_loading = TRUE, !.pc[t] = "lm_wait", !.arg[t] = key],
            "load", key, t)

\* load_model(key) called by task t: `async with self._model_lock`
load_model(S, t, key) ==
    IF AcquireFree(S.model_lock)
    THEN load_model_body([S EXCEPT !.model_lock.locked = TRUE], t, key)
    ELSE [S EXCEPT !.model_lock.waiters = Append(@, t),
                   !.pc[t] = "lm_lock", !.arg[t] = key]

\* the woken waiter takes the model lock and goes on
load_model_resume(S, t) ==
    load_model_body(
        [S EXCEPT !.model_lock = [locked |-> TRUE, waiters |-> Tail(@.waiters)]],
        t, S.arg[t])

\* mutant: is_loading is reset on the normal return only, not in a finally
load_model_exit_no_finally(S, t) ==
    LET i == ThreadOf(S, t) IN
    [S EXCEPT !.is_loading = (S.threads[i].res # "ok"),
              !.model_lock.locked = FALSE,
              !.threads[i] = IdleThread,
              !.out = IF S.threads[i].res = "ok" /\ S.pipeline = "deleted"
                      THEN "AttributeError" ELSE S.threads[i].res,
              !.pc[t] = "ret", !.arg[t] = "None"]

\* load_model lines 104-107 and the lock's release, once the thread's call
\* has ended; `return self.pipeline` reads the attribute again
load_model_exit(S, t) ==
    LET i == ThreadOf(S, t) IN
    [S EXCEPT !.is_loading = FALSE, !.model_lock.locked = FALSE,
              !.threads[i] = IdleThread,
              !.out = IF S.threads[i].res = "ok" /\ S.pipeline = "deleted"
                      THEN "AttributeError" ELSE S.threads[i].res,
              !.pc[t] = "ret", !.arg[t] = "None"]

\* generate_image(key) lines 223-237, entered with the generation lock held
generate_image_body(S, t, key) ==
    run_in_executor(
        [S EXCEPT !.is_generating = TRUE, !.pc[t] = "gi_wait", !.arg[t] = key],
        "generate", key, t)

\* generate_image(key) called by task t: `async with self._generation_lock`
generate_image(S, t, key) ==
    IF AcquireFree(S.generation_lock)
    THEN generate_image_body([S EXCEPT !.generation_lock.locked = TRUE], t, key)
    ELSE [S EXCEPT !.generation_lock.waiters = Append(@, t),
                   !.pc[t] = "gi_lock", !.arg[t] = key]

generate_image_resume(S, t) ==
    generate_image_body(
        [S EXCEPT !.generation_lock =
            [locked |-> TRUE, waiters |-> Tail(@.waiters)]],
        t, S.arg[t])

\* generate_image lines 239-240 and the lock's release
generate_image_exit(S, t) ==
    LET i == ThreadOf(S, t) IN
    [S EXCEPT !.is_generating = FALSE, !.generation_lock.locked = FALSE,
              !.threads[i] = IdleThread, !.out = S.threads[i].res,
              !.pc[t] = "ret", !.arg[t] = "None"]

\* mutant: a cancelled generate call releases the lock and leaves
\* is_generating as it is
cancel_skips_finally(S, t, dropped) ==
    LET T == [S EXCEPT !.pc[t] = "ret", !.arg[t] = "None", !.out = "cancelled"] IN
    IF S.pc[t] = "lm_lock"
    THEN [T EXCEPT !.model_lock.waiters = Without(@, t)]
    ELSE IF S.pc[t] = "gi_lock"
    THEN [T EXCEPT !.generation_lock.waiters = Without(@, t)]
    ELSE IF S.pc[t] = "lm_wait"
    THEN Orphan([T EXCEPT !.is_loading = FALSE, !.model_lock.locked = FALSE],
                t, dropped)
    ELSE IF S.pc[t] = "gi_wait"
    THEN Orphan([T EXCEPT !.generation_lock.locked = FALSE], t, dropped)
    ELSE T

\* CancelledError raised in task t at the await it is suspended in: a
\* waiter leaves the lock's queue; a holder runs its `finally` and releases
cancel(S, t, dropped) ==
    LET T == [S EXCEPT !.pc[t] = "ret", !.arg[t] = "None", !.out = "cancelled"] IN
    IF S.pc[t] = "lm_lock"
    THEN [T EXCEPT !.model_lock.waiters = Without(@, t)]
    ELSE IF S.pc[t] = "gi_lock"
    THEN [T EXCEPT !.generation_lock.waiters = Without(@, t)]
    ELSE IF S.pc[t] = "lm_wait"
    THEN Orphan([T EXCEPT !.is_loading = FALSE, !.model_lock.locked = FALSE],
                t, dropped)
    ELSE IF S.pc[t] = "gi_wait"
    THEN Orphan([T EXCEPT !.is_generating = FALSE,
                          !.generation_lock.locked = FALSE], t, dropped)
    ELSE T

GatePcs == {"lm_lock", "lm_wait", "gi_lock", "gi_wait"}

\* --------------------------------------------------- JobQueue: actions
\* submit_job(model=m), lines 124-151
submit_job(m) ==
    IF submit_refused(queue)
    THEN /\ ret' = <<"QueueFull">>
         /\ UNCHANGED <<queue, putters, jobs, next_id, pc>>
    ELSE /\ next_id <= MaxJobs
         /\ next_id' = next_id + 1
         /\ LET job == Job(m, Len(queue) + 1, now) IN
            IF queue_full(queue)
            THEN \* `await self.queue.put(job)` suspends until a get()
                 /\ putters' = Append(putters, <<next_id, job>>)
                 /\ ret' = None
                 /\ UNCHANGED <<queue, jobs, pc>>
            ELSE /\ queue' = Append(queue, next_id)
                 /\ jobs' = Put(jobs, next_id, job)
                 /\ pc' = IF WorkerDone THEN [pc EXCEPT !["worker"] = "start"]
                          ELSE pc
                 /\ ret' = <<"job", next_id>>
                 /\ UNCHANGED putters

\* a caller of the JobQueue object
Submit ==
    /\ submit_job(None)
    /\ UNCHANGED <<max_size, current_job, process_callback, running, wjob, now>>
    /\ UNCHANGED <<gvars, tvars>>

\* start()
Start ==
    /\ pc["stopper"] = "idle"
    /\ ~running
    /\ running' = TRUE
    /\ pc' = [pc EXCEPT !["cleanup"] = "sleep"]
    /\ ret' = None
    /\ UNCHANGED <<max_size, queue, putters, jobs, current_job,
                   process_callback, wjob, next_id, now>>
    /\ UNCHANGED <<gvars, tvars>>

\* the first step of the task submit_job created: `while self._running`
WorkerStart ==
    /\ pc["worker"] = "start"
    /\ pc' = [pc EXCEPT !["worker"] = loop_pc]
    /\ ret' = None
    /\ UNCHANGED <<max_size, queue, putters, jobs, current_job,
                   process_callback, running, wjob, next_id, now>>
    /\ UNCHANGED <<gvars, tvars>>

\* self.queue.get() takes the oldest entry; a suspended put() moves in
WorkerGet ==
    /\ pc["worker"] = "poll"
    /\ queue # <<>>
    /\ wjob' = Some(queue_get(queue)[1])
    /\ IF putters = <<>>
       THEN queue' = queue_get(queue)[2] /\ UNCHANGED <<putters, jobs>>
       ELSE /\ queue' = Append(queue_get(queue)[2], Head(putters)[1])
            /\ jobs' = Put(jobs, Head(putters)[1], Head(putters)[2])
            /\ putters' = Tail(putters)
    /\ pc' = [pc EXCEPT !["worker"] = "got"]
    /\ ret' = None
    /\ UNCHANGED <<max_size, current_job, process_callback, running,
                   next_id, now>>
    /\ UNCHANGED <<gvars, tvars>>

\* mutant: with no process_callback the job is left as it is and the
\* loop goes on
WorkerProcessNoCallbackStalls ==
    /\ pc["worker"] = "got"
    /\ process_callback = "none"
    /\ jobs' = begin_processing(jobs, wjob[1], now)
    /\ current_job' = wjob
    /\ pc' = [pc EXCEPT !["worker"] = loop_pc]
    /\ ret' = None
    /\ UNCHANGED <<max_size, queue, putters, process_callback, running,
                   wjob, next_id, now>>
    /\ UNCHANGED <<gvars, tvars>>

\* lines 187-208 with no process_callback set
WorkerProcessNoCallback ==
    /\ pc["worker"] = "got"
    /\ process_callback = "none"
    /\ LET id == wjob[1]
           js == begin_processing(jobs, id, now)
       IN /\ jobs' = fail_job_jobs(js, id, NoCallbackError, now)
          /\ current_job' = terminal_current(js, Some(id), id)
    /\ pc' = [pc EXCEPT !["worker"] = loop_pc]
    /\ ret' = None
    /\ UNCHANGED <<max_size, queue, putters, process_callback, running,
                   wjob, next_id, now>>
    /\ UNCHANGED <<gvars, tvars>>

\* lines 187-202 with some processing function set: it is awaited
WorkerProcessGeneric ==
    /\ pc["worker"] = "got"
    /\ process_callback = "generic"
    /\ jobs' = begin_processing(jobs, wjob[1], now)
    /\ current_job' = wjob
    /\ pc' = [pc EXCEPT !["worker"] = "cb"]
    /\ ret' = None
    /\ UNCHANGED <<max_size, queue, putters, process_callback, running,
                   wjob, next_id, now>>
    /\ UNCHANGED <<gvars, tvars>>

\* the processing function called complete_job for its job and returned
CallbackCompletes ==
    /\ pc["worker"] = "cb"
    /\ \E path \in ResultPaths, seed \in ResultSeeds :
          jobs' = complete_job_jobs(jobs, wjob[1], path, seed, now)
    /\ current_job' = terminal_current(jobs, current_job, wjob[1])
    /\ pc' = [pc EXCEPT !["worker"] = loop_pc]
    /\ ret' = None
    /\ UNCHANGED <<max_size, queue, putters, process_callback, running,
                   wjob, next_id, now>>
    /\ UNCHANGED <<gvars, tvars>>

\* the processing function called fail_job for its job and returned
CallbackFails ==
    /\ pc["worker"] = "cb"
    /\ \E e \in ErrorTexts : jobs' = fail_job_jobs(jobs, wjob[1], e, now)
    /\ current_job' = terminal_current(jobs, current_job, wjob[1])
    /\ pc' = [pc EXCEPT !["worker"] = loop_pc]
    /\ ret' = None
    /\ UNCHANGED <<max_size, queue, putters, process_callback, running,
                   wjob, next_id, now>>
    /\ UNCHANGED <<gvars, tvars>>

\* mutant: the exception of the processing function ends the worker task
\* once the job is marked
CallbackRaisesEndsWorker ==
    /\ pc["worker"] = "cb"
    /\ \E e \in ErrorTexts : jobs' = fail_job_jobs(jobs, wjob[1], e, now)
    /\ current_job' = terminal_current(jobs, current_job, wjob[1])
    /\ pc' = [pc EXCEPT !["worker"] = "none"]
    /\ ret' = None
    /\ UNCHANGED <<max_size, queue, putters, process_callback, running,
                   wjob, next_id, now>>
    /\ UNCHANGED <<gvars, tvars>>

\* the processing function raised: lines 203-205
CallbackRaises ==
    /\ pc["worker"] = "cb"
    /\ \E e \in ErrorTexts : jobs' = fail_job_jobs(jobs, wjob[1], e, now)
    /\ current_job' = terminal_current(jobs, current_job, wjob[1])
    /\ pc' = [pc EXCEPT !["worker"] = loop_pc]
    /\ ret' = None
    /\ UNCHANGED <<max_size, queue, putters, process_callback, running,
                   wjob, next_id, now>>
    /\ UNCHANGED <<gvars, tvars>>

\* mutant: when the processing function returns without a terminal
\* transition, the loop takes the job to have succeeded
CallbackReturnsInfersSuccess ==
    /\ pc["worker"] = "cb"
    /\ jobs' = [jobs EXCEPT ![wjob[1]].status = COMPLETED,
                            ![wjob[1]].completed_at = Some(now)]
    /\ current_job' = None
    /\ pc' = [pc EXCEPT !["worker"] = loop_pc]
    /\ ret' = None
    /\ UNCHANGED <<max_size, queue, putters, process_callback, running,
                   wjob, next_id, now>>
    /\ UNCHANGED <<gvars, tvars>>

\* the processing function returned without a terminal transition
CallbackReturns ==
    /\ pc["worker"] = "cb"
    /\ pc' = [pc EXCEPT !["worker"] = loop_pc]
    /\ ret' = None
    /\ UNCHANGED <<max_size, queue, putters, jobs, current_job,
                   process_callback, running, wjob, next_id, now>>
    /\ UNCHANGED <<gvars, tvars>>

\* one pass of _cleanup_old_jobs after its sleep, lines 260-275
Sweep ==
    /\ pc["cleanup"] = "sleep"
    /\ jobs' = Drop(jobs, to_remove(jobs, now))
    /\ pc' = [pc EXCEPT !["cleanup"] = IF running THEN "sleep" ELSE "none"]
    /\ ret' = None
    /\ UNCHANGED <<max_size, queue, putters, current_job, process_callback,
                   running, wjob, next_id, now>>
    /\ UNCHANGED <<gvars, tvars>>

\* the clock advances
Tick ==
    /\ now < MaxTime
    /\ now' = now + 1
    /\ ret' = None
    /\ UNCHANGED <<max_size, queue, putters, jobs, current_job,
                   process_callback, running, wjob, next_id, pc>>
    /\ UNCHANGED <<gvars, tvars>>

\* mutant: stop() ends the worker and leaves the reaper task alone
StopBeginKeepsReaper ==
    /\ pc["stopper"] = "idle"
    /\ running \/ ~WorkerDone \/ pc["cleanup"] = "sleep"
    /\ running' = FALSE
    /\ pc["worker"] \in {"none", "start", "poll", "got", "cb"} \cup GatePcs
    /\ \E dropped \in BOOLEAN :
          LET S == IF pc["worker"] \in GatePcs
                   THEN cancel(Gate, "worker", dropped) ELSE Gate
          IN SetGate([S EXCEPT !.pc = [@ EXCEPT
                !["worker"] = IF @ = "got" THEN @ ELSE "none",
                !["stopper"] = IF pc["worker"] = "got" THEN "await_worker" ELSE "idle"]])
    /\ ret' = None
    /\ UNCHANGED <<max_size, queue, putters, jobs, current_job,
                   process_callback, wjob, next_id, now, kind>>

\* stop(), lines 80-98.  task.cancel() raises CancelledError at the await
\* the worker is suspended in, which no `except Exception` catches; wait_for
\* returns the inner result when the inner get() had already finished, and
\* stop() then waits for the worker
StopBegin ==
    /\ pc["stopper"] = "idle"
    /\ running \/ ~WorkerDone \/ pc["cleanup"] = "sleep"
    /\ running' = FALSE
    /\ pc["worker"] \in {"none", "start", "poll", "got", "cb"} \cup GatePcs
    /\ \E dropped \in BOOLEAN :
          LET S == IF pc["worker"] \in GatePcs
                   THEN cancel(Gate, "worker", dropped) ELSE Gate
          IN SetGate([S EXCEPT !.pc = [@ EXCEPT
                !["worker"] = IF @ = "got" THEN @ ELSE "none",
                !["stopper"] = IF pc["worker"] = "got" THEN "await_worker" ELSE "idle",
                !["cleanup"] = IF pc["worker"] # "got" THEN "none" ELSE @]])
    /\ ret' = None
    /\ UNCHANGED <<max_size, queue, putters, jobs, current_job,
                   process_callback, wjob, next_id, now, kind>>

\* stop() resumes once the worker task has ended, and cancels the reaper
StopFinish ==
    /\ pc["stopper"] = "await_worker"
    /\ pc["worker"] = "none"
    /\ pc' = [pc EXCEPT !["stopper"] = "idle", !["cleanup"] = "none"]
    /\ ret' = None
    /\ UNCHANGED <<max_size, queue, putters, jobs, current_job,
                   process_callback, running, wjob, next_id, now>>
    /\ UNCHANGED <<gvars, tvars>>

\* ------------------------------------------------- executor threads
\* the call a thread runs returns or raises: its awaiter, if there still
\* is one, finds the result
ThreadEnd(th, res) ==
    IF th.owner = "None" THEN IdleThread ELSE [th EXCEPT !.pc = "done", !.res = res]

\* the outcomes of reading files and of GPU work
IoOutcomes == {"ok", "failed"}

\* _load_model_sync line 118
LoadCheckCached(i) ==
    /\ threads[i].kind = "load" /\ threads[i].pc = "l0"
    /\ threads' = [threads EXCEPT ![i] =
          IF pipeline = "deleted" THEN ThreadEnd(@, "AttributeError")
          ELSE IF pipeline # "None" /\ current_model = @.key THEN ThreadEnd(@, "ok")
          ELSE [@ EXCEPT !.pc = "l1"]]
    /\ ret' = None
    /\ UNCHANGED <<pipeline, current_model, is_loading, is_generating,
                   model_lock, generation_lock>>
    /\ UNCHANGED <<max_size, queue, putters, jobs, current_job,
                   process_callback, running, wjob, next_id, now>>
    /\ UNCHANGED <<tvars, pc>>

\* _load_model_sync lines 126-130: `del self.pipeline`
LoadClearPrevious(i) ==
    /\ threads[i].kind = "load" /\ threads[i].pc = "l1"
    /\ IF pipeline = "deleted"
       THEN /\ threads' = [threads EXCEPT ![i] = ThreadEnd(@, "AttributeError")]
            /\ UNCHANGED pipeline
       ELSE /\ threads' = [threads EXCEPT ![i].pc = "l2"]
            /\ pipeline' = IF pipeline = "None" THEN "None" ELSE "deleted"
    /\ ret' = None
    /\ UNCHANGED <<current_model, is_loading, is_generating, model_lock,
                   generation_lock>>
    /\ UNCHANGED <<max_size, queue, putters, jobs, current_job,
                   process_callback, running, wjob, next_id, now>>
    /\ UNCHANGED <<tvars, pc>>

\* _load_model_sync lines 133-162: the transformer and the pipeline are
\* read from disk, `self.pipeline = ...`
LoadBuildPipeline(i) ==
    /\ threads[i].kind = "load" /\ threads[i].pc = "l2"
    /\ \E o \in IoOutcomes :
          IF o = "ok"
          THEN /\ pipeline' = threads[i].key
               /\ threads' = [threads EXCEPT ![i].pc = "l3"]
          ELSE /\ threads' = [threads EXCEPT ![i] = ThreadEnd(@, "LoadFailed")]
               /\ UNCHANGED pipeline
    /\ ret' = None
    /\ UNCHANGED <<current_model, is_loading, is_generating, model_lock,
                   generation_lock>>
    /\ UNCHANGED <<max_size, queue, putters, jobs, current_job,
                   process_callback, running, wjob, next_id, now>>
    /\ UNCHANGED <<tvars, pc>>

\* _load_model_sync lines 164-199: offload set up on self.pipeline,
\* `self.current_model = model_key`
LoadSetCurrent(i) ==
    /\ threads[i].kind = "load" /\ threads[i].pc = "l3"
    /\ IF pipeline = "deleted"
       THEN /\ threads' = [threads EXCEPT ![i] = ThreadEnd(@, "AttributeError")]
            /\ UNCHANGED current_model
       ELSE \E o \in IoOutcomes :
              IF o = "ok"
              THEN /\ current_model' = threads[i].key
                   /\ threads' = [threads EXCEPT ![i] = ThreadEnd(@, "ok")]
              ELSE /\ threads' = [threads EXCEPT ![i] = ThreadEnd(@, "LoadFailed")]
                   /\ UNCHANGED current_model
    /\ ret' = None
    /\ UNCHANGED <<pipeline, is_loading, is_generating, model_lock,
                   generation_lock>>
    /\ UNCHANGED <<max_size, queue, putters, jobs, current_job,
                   process_callback, running, wjob, next_id, now>>
    /\ UNCHANGED <<tvars, pc>>

\* _generate_image_sync line 259: `self.pipeline is None or
\* self.current_model != model_key`, with the attribute present
not_loaded(p, cur, key) == p = "None" \/ cur # key

\* mutant: a generation that finds another model loaded loads its own
GenerateCheckLoadedLoads(i) ==
    /\ threads[i].kind = "generate" /\ threads[i].pc = "g0"
    /\ IF pipeline # "deleted" /\ not_loaded(pipeline, current_model, threads[i].key)
       THEN /\ pipeline' = threads[i].key
            /\ current_model' = threads[i].key
            /\ threads' = [threads EXCEPT ![i].pc = "g1", ![i].pipe = threads[i].key]
       ELSE /\ threads' = [threads EXCEPT ![i] =
                  IF pipeline = "deleted" THEN ThreadEnd(@, "AttributeError")
                  ELSE [@ EXCEPT !.pc = "g1", !.pipe = pipeline]]
            /\ UNCHANGED <<pipeline, current_model>>
    /\ ret' = None
    /\ UNCHANGED <<is_loading, is_generating, model_lock, generation_lock>>
    /\ UNCHANGED <<max_size, queue, putters, jobs, current_job,
                   process_callback, running, wjob, next_id, now>>
    /\ UNCHANGED <<tvars, pc>>

\* _generate_image_sync lines 259-262
GenerateCheckLoaded(i) ==
    /\ threads[i].kind = "generate" /\ threads[i].pc = "g0"
    /\ threads' = [threads EXCEPT ![i] =
          IF pipeline = "deleted" THEN ThreadEnd(@, "AttributeError")
          ELSE IF not_loaded(pipeline, current_model, @.key)
          THEN ThreadEnd(@, "NotLoaded")
          ELSE [@ EXCEPT !.pc = "g1", !.pipe = pipeline]]
    /\ ret' = None
    /\ UNCHANGED <<pipeline, current_model, is_loading, is_generating,
                   model_lock, generation_lock>>
    /\ UNCHANGED <<max_size, queue, putters, jobs, current_job,
                   process_callback, running, wjob, next_id, now>>
    /\ UNCHANGED <<tvars, pc>>

\* _generate_image_sync lines 264-317: inference on the handle read at 262
GenerateRun(i) ==
    /\ threads[i].kind = "generate" /\ threads[i].pc = "g1"
    /\ \E o \in IoOutcomes :
          threads' = [threads EXCEPT ![i] =
                        ThreadEnd(@, IF o = "ok" THEN "ok" ELSE "GenFailed")]
    /\ ret' = None
    /\ UNCHANGED <<pipeline, current_model, is_loading, is_generating,
                   model_lock, generation_lock>>
    /\ UNCHANGED <<max_size, queue, putters, jobs, current_job,
                   process_callback, running, wjob, next_id, now>>
    /\ UNCHANGED <<tvars, pc>>

ThreadStep ==
    \E i \in ThreadIds :
        \/ LoadCheckCached(i)
        \/ LoadClearPrevious(i)
        \/ LoadBuildPipeline(i)
        \/ LoadSetCurrent(i)
        \/ GenerateCheckLoaded(i)
        \/ GenerateRun(i)

\* ------------------------------------- callers of the PipelineManager
\* any key a caller may pass
CallKeys == MODEL_CONFIGS \cup {"bogus"}

\* the call of task r has suspended, or it has ended and r is told how
Land(S, r, op) ==
    /\ S.out # "blocked"
    /\ IF S.out = "pending"
       THEN SetGate(S) /\ ret' = None
       ELSE SetGate([S EXCEPT !.pc[r] = "idle"]) /\ ret' = <<op, r, S.out>>
    /\ UNCHANGED <<max_size, queue, putters, jobs, current_job,
                   process_callback, running, wjob, next_id, now, kind>>

OpOf(p) == IF p \in {"lm_lock", "lm_wait"} THEN "load_model" ELSE "generate_image"

\* `await pipeline_manager.load_model(key)`
CallLoad(r, key) ==
    /\ pc[r] = "idle"
    /\ Land(load_model(Gate, r, key), r, "load_model")

\* `await pipeline_manager.generate_image(model_key=key, ...)`
CallGenerate(r, key) ==
    /\ pc[r] = "idle"
    /\ Land(generate_image(Gate, r, key), r, "generate_image")

\* a caller woken by the lock's release goes on
CallerResume(r) ==
    \/ /\ pc[r] = "lm_lock" /\ Woken(model_lock, r)
       /\ Land(load_model_resume(Gate, r), r, "load_model")
    \/ /\ pc[r] = "gi_lock" /\ Woken(generation_lock, r)
       /\ Land(generate_image_resume(Gate, r), r, "generate_image")

\* a caller whose thread has ended goes on
CallerThreadDone(r) ==
    \/ /\ pc[r] = "lm_wait" /\ ThreadDone(Gate, r)
       /\ Land(load_model_exit(Gate, r), r, "load_model")
    \/ /\ pc[r] = "gi_wait" /\ ThreadDone(Gate, r)
       /\ Land(generate_image_exit(Gate, r), r, "generate_image")

\* a caller is cancelled at the await it is suspended in
CallerCancelled(r) ==
    /\ pc[r] \in GatePcs
    /\ \E dropped \in BOOLEAN : Land(cancel(Gate, r, dropped), r, OpOf(pc[r]))

\* ------------------------------------------------------- initial states
\* PipelineManager.__init__
InitGate ==
    /\ pipeline = "None"
    /\ current_model = "None"
    /\ is_loading = FALSE
    /\ is_generating = FALSE
    /\ model_lock = FreeLock
    /\ generation_lock = FreeLock
    /\ threads = [i \in ThreadIds |-> IdleThread]

\* JobQueue.__init__
InitQueue ==
    /\ max_size \in 0..MaxSize
    /\ queue = <<>>
    /\ putters = <<>>
    /\ jobs = <<>>
    /\ current_job = None
    /\ running = FALSE
    /\ wjob = None
    /\ next_id = 1
    /\ ret = None
    /\ now = 0

InitTasks ==
    /\ pc = [t \in Tasks |-> IF t \in {"worker", "cleanup", "startup"} THEN "none" ELSE "idle"]
    /\ arg = [t \in Tasks |-> "None"]
    /\ kind = [r \in Reqs |-> "idle"]

\* ------------------------------------------- the JobQueue object alone
\* a JobQueue with no processing function, or with one that ends in any
\* of the ways _process_queue distinguishes
InitQ ==
    /\ InitQueue
    /\ InitGate
    /\ InitTasks
    /\ process_callback \in {"none", "generic"}

NextQ ==
    \/ Submit
    \/ Start
    \/ StopBegin
    \/ StopFinish
    \/ WorkerStart
    \/ WorkerGet
    \/ WorkerProcessNoCallback
    \/ WorkerProcessGeneric
    \/ CallbackCompletes
    \/ CallbackFails
    \/ CallbackRaises
    \/ CallbackReturns
    \/ Sweep
    \/ Tick

SpecQueue == InitQ /\ [][NextQ]_vars

\* a JobQueue of the largest size
InitLive == InitQ /\ max_size = MaxSize

\* the worker's own steps, and the end of the processing function it awaits
WorkerStep ==
    \/ WorkerStart
    \/ WorkerGet
    \/ WorkerProcessNoCallback
    \/ WorkerProcessGeneric

CallbackEnds ==
    \/ CallbackCompletes
    \/ CallbackFails
    \/ CallbackRaises
    \/ CallbackReturns

\* the JobQueue with an event loop that runs the worker and a waiting
\* stop() whenever they can go on, and a processing function that always
\* ends
SpecWorkerLive ==
    InitLive /\ [][NextQ]_vars /\ WF_vars(WorkerStep) /\ WF_vars(CallbackEnds)
             /\ WF_vars(StopFinish)

\* the JobQueue with a clock that keeps advancing and a reaper task that
\* keeps being scheduled while it exists
SpecQueueLive == InitLive /\ [][NextQ]_vars /\ WF_vars(Tick) /\ WF_vars(Sweep)

\* complete_job(job_id, result_path, result_seed) called by anybody who
\* holds the JobQueue, with any id
CompleteJob(id, path, seed) ==
    /\ jobs' = complete_job_jobs(jobs, id, path, seed, now)
    /\ current_job' = terminal_current(jobs, current_job, id)
    /\ ret' = <<"complete_job", id, path, seed>>
    /\ UNCHANGED <<max_size, queue, putters, process_callback, running,
                   wjob, next_id, now, pc>>
    /\ UNCHANGED <<gvars, tvars>>

\* fail_job(job_id, error) called by anybody who holds the JobQueue
FailJob(id, error) ==
    /\ jobs' = fail_job_jobs(jobs, id, error, now)
    /\ current_job' = terminal_current(jobs, current_job, id)
    /\ ret' = <<"fail_job", id, error>>
    /\ UNCHANGED <<max_size, queue, putters, process_callback, running,
                   wjob, next_id, now, pc>>
    /\ UNCHANGED <<gvars, tvars>>

\* the JobQueue with its two public transitions called from outside the
\* worker as well
NextCalls ==
    \/ NextQ
    \/ \E id \in JobIds, path \in CallPaths, seed \in CallSeeds :
          CompleteJob(id, path, seed)
    \/ \E id \in JobIds, e \in CallErrors : FailJob(id, e)

\* a JobQueue of the largest size, with or without a processing function
InitCalls ==
    /\ InitQ
    /\ max_size = MaxSize

SpecCalls == InitCalls /\ [][NextCalls]_vars

\* ------------------------------------- the PipelineManager object alone
InitG ==
    /\ InitQueue
    /\ InitGate
    /\ InitTasks
    /\ max_size = MaxSize
    /\ process_callback = "none"

NextG ==
    \/ \E c \in Callers, key \in CallKeys : CallLoad(c, key)
    \/ \E c \in Callers, key \in CallKeys : CallGenerate(c, key)
    \/ \E c \in Callers : CallerResume(c)
    \/ \E c \in Callers : CallerThreadDone(c)
    \/ \E c \in Callers : CallerCancelled(c)
    \/ ThreadStep

SpecGate == InitG /\ [][NextG]_vars

\* --------------------------------------------------- api/main.py
DEFAULT_PRESET == "4-step"

\* the `preset` field of a request: absent, or a key
Presets == MODEL_CONFIGS \cup {"None"}

\* the server accepts requests between startup_event and shutdown_event;
\* the auto-load task startup_event created was scheduled before any
\* handler, so it has taken its first step
Serving == process_callback = "main" /\ running /\ pc["startup"] # "call"

\* a handler answers without touching anything
Refuse(r, code) ==
    /\ ret' = <<"http", r, code>>
    /\ UNCHANGED <<max_size, queue, putters, jobs, current_job,
                   process_callback, running, wjob, next_id, now>>
    /\ UNCHANGED <<gvars, tvars, pc>>

\* a handler goes into asyncio.wait_for(...): the awaited call is a task
\* of its own that has not run yet
Enter(r, k, key) ==
    /\ pc' = [pc EXCEPT ![r] = "call"]
    /\ kind' = [kind EXCEPT ![r] = k]
    /\ arg' = [arg EXCEPT ![r] = key]
    /\ ret' = None
    /\ UNCHANGED <<max_size, queue, putters, jobs, current_job,
                   process_callback, running, wjob, next_id, now>>
    /\ UNCHANGED gvars

\* HTTP status of a handler whose gate call ended with `out`
StatusOf(out) ==
    IF out = "ok" THEN 200 ELSE IF out = "cancelled" THEN 504 ELSE 500

\* the gate call of request r has suspended, or ended and r answers
Answer(S, r) ==
    /\ S.out # "blocked"
    /\ IF S.out = "pending"
       THEN SetGate(S) /\ ret' = None /\ UNCHANGED kind
       ELSE /\ SetGate([S EXCEPT !.pc[r] = "idle"])
            /\ kind' = [kind EXCEPT ![r] = "idle"]
            /\ ret' = <<"http", r, StatusOf(S.out)>>
    /\ UNCHANGED <<max_size, queue, putters, jobs, current_job,
                   process_callback, running, wjob, next_id, now>>

\* POST /api/v1/edit, lines 712-757, up to the wait_for
EditImage(r, preset) ==
    /\ Serving /\ pc[r] = "idle"
    /\ IF current_model = "None" THEN Refuse(r, 400)
       ELSE IF preset # "None" /\ preset # current_model THEN Refuse(r, 409)
       ELSE IF is_loading THEN Refuse(r, 409)
       ELSE IF is_generating THEN Refuse(r, 409)
       ELSE Enter(r, "edit", current_model)

\* POST /api/v1/load-model, lines 313-330, up to the wait_for
LoadModel(r, key) ==
    /\ Serving /\ pc[r] = "idle"
    /\ IF is_loading THEN Refuse(r, 409)
       ELSE IF is_generating THEN Refuse(r, 409)
       ELSE Enter(r, "load", key)

\* the call wait_for wrapped begins
RequestBegin(r) ==
    /\ pc[r] = "call"
    /\ Answer(IF kind[r] = "edit" THEN generate_image(Gate, r, arg[r])
              ELSE load_model(Gate, r, arg[r]), r)

CanResume(t) ==
    \/ pc[t] = "lm_lock" /\ Woken(model_lock, t)
    \/ pc[t] = "gi_lock" /\ Woken(generation_lock, t)

GateResume(S, t) ==
    IF S.pc[t] = "lm_lock" THEN load_model_resume(S, t)
    ELSE generate_image_resume(S, t)

CanExit(t) == pc[t] \in {"lm_wait", "gi_wait"} /\ ThreadDone(Gate, t)

GateExit(S, t) ==
    IF S.pc[t] = "lm_wait" THEN load_model_exit(S, t)
    ELSE generate_image_exit(S, t)

\* a request woken by a lock's release goes on
RequestResume(r) == CanResume(r) /\ Answer(GateResume(Gate, r), r)

\* a request whose thread has ended goes on to its response
RequestThreadDone(r) == CanExit(r) /\ Answer(GateExit(Gate, r), r)

\* wait_for's timeout fires: the wrapped call is cancelled, 504 is answered
RequestTimeout(r) ==
    /\ pc[r] \in GatePcs
    /\ \E dropped \in BOOLEAN : Answer(cancel(Gate, r, dropped), r)

\* POST /api/v1/submit, lines 456-505
SubmitJob(r, preset) ==
    /\ Serving /\ pc[r] = "idle"
    /\ IF current_model = "None" THEN Refuse(r, 400)
       ELSE IF preset # "None" /\ preset # current_model THEN Refuse(r, 409)
       ELSE /\ submit_refused(queue) \/ next_id <= MaxApiJobs
            /\ submit_job(Some(current_model))
            /\ UNCHANGED <<max_size, current_job, process_callback, running,
                           wjob, now>>
            /\ UNCHANGED <<gvars, tvars>>

\* startup_event, lines 166-178
Startup ==
    /\ process_callback = "none" /\ ~running /\ pc["startup"] = "none"
    /\ process_callback' = "main"
    /\ running' = TRUE
    /\ pc' = [pc EXCEPT !["cleanup"] = "sleep", !["startup"] = "call"]
    /\ arg' = [arg EXCEPT !["startup"] = DEFAULT_PRESET]
    /\ ret' = None
    /\ UNCHANGED <<max_size, queue, putters, jobs, current_job, wjob,
                   next_id, now, kind>>
    /\ UNCHANGED gvars

\* a step of the auto-load task: its call ends, nobody awaits the task
AutoLoadLand(S) ==
    /\ S.out # "blocked"
    /\ SetGate(IF S.out = "pending" THEN S
               ELSE [S EXCEPT !.pc["startup"] = "none"])
    /\ ret' = None
    /\ UNCHANGED <<max_size, queue, putters, jobs, current_job,
                   process_callback, running, wjob, next_id, now, kind>>

\* the task startup_event created: load_model(DEFAULT_PRESET).  It is the
\* first caller of load_model, so it finds the model lock free
AutoLoad ==
    \/ pc["startup"] = "call"
         /\ AutoLoadLand(load_model(Gate, "startup", arg["startup"]))
    \/ CanExit("startup") /\ AutoLoadLand(GateExit(Gate, "startup"))

\* shutdown_event: the server has answered the requests in flight
Shutdown ==
    /\ process_callback = "main"
    /\ \A r \in Reqs : pc[r] = "idle"
    /\ StopBegin

\* process_job_callback line 136: `job.model or current_model`
job_model(js, id, cur) ==
    IF js[id].model # None THEN js[id].model[1] ELSE cur

\* process_job_callback lines 142-151 after load_model has ended in S:
\* on a return the callback goes on into generate_image
then_generate(S, key) ==
    IF S.out = "ok"
    THEN generate_image([S EXCEPT !.out = "pending"], "worker", key)
    ELSE S

\* process_job_callback lines 136-151 from its start
callback_enter(S, key) ==
    IF key = "None" THEN [S EXCEPT !.out = "NoModel"]
    ELSE IF S.current_model # key
    THEN then_generate(load_model(S, "worker", key), key)
    ELSE generate_image(S, "worker", key)

\* mutant: an error of the callback is not caught; it ends the worker
\* task and the job is left as it was
CallbackLandErrorEscapes(S, js, cur, id) ==
    /\ S.out # "blocked"
    /\ IF S.out = "pending"
       THEN SetGate(S) /\ jobs' = js /\ current_job' = cur
       ELSE IF S.out = "ok"
       THEN /\ SetGate([S EXCEPT !.pc["worker"] = loop_pc])
            /\ current_job' = terminal_current(js, cur, id)
            /\ \E path \in ResultPaths, seed \in ResultSeeds :
                  jobs' = complete_job_jobs(js, id, path, seed, now)
       ELSE /\ SetGate([S EXCEPT !.pc["worker"] = "none"])
            /\ jobs' = js /\ current_job' = cur
    /\ ret' = None
    /\ UNCHANGED <<max_size, queue, putters, process_callback, running,
                   wjob, next_id, now, kind>>

\* the callback has suspended, or it has ended: complete_job after
\* save_image (lines 154-157), fail_job on any exception (lines 159-162),
\* and _process_queue goes back to the top of its loop
CallbackLand(S, js, cur, id) ==
    /\ S.out # "blocked"
    /\ IF S.out = "pending"
       THEN SetGate(S) /\ jobs' = js /\ current_job' = cur
       ELSE /\ SetGate([S EXCEPT !.pc["worker"] = loop_pc])
            /\ current_job' = terminal_current(js, cur, id)
            /\ IF S.out = "ok"
               THEN \E o \in IoOutcomes, path \in ResultPaths, seed \in ResultSeeds :
                      jobs' = IF o = "ok"
                              THEN complete_job_jobs(js, id, path, seed, now)
                              ELSE fail_job_jobs(js, id, "SaveFailed", now)
               ELSE jobs' = fail_job_jobs(js, id, S.out, now)
    /\ ret' = None
    /\ UNCHANGED <<max_size, queue, putters, process_callback, running,
                   wjob, next_id, now, kind>>

\* _process_queue lines 187-202 with process_job_callback set
WorkerProcessMain ==
    /\ pc["worker"] = "got"
    /\ process_callback = "main"
    /\ LET id == wjob[1]
           js == begin_processing(jobs, id, now)
       IN CallbackLand(callback_enter(Gate, job_model(js, id, current_model)),
                       js, wjob, id)

\* the callback, woken by a lock's release, goes on
CallbackResume ==
    /\ CanResume("worker")
    /\ CallbackLand(
          IF pc["worker"] = "lm_lock"
          THEN then_generate(load_model_resume(Gate, "worker"), arg["worker"])
          ELSE generate_image_resume(Gate, "worker"),
          jobs, current_job, wjob[1])

\* the callback goes on once its thread has ended
CallbackThreadDone ==
    /\ CanExit("worker")
    /\ CallbackLand(
          IF pc["worker"] = "lm_wait"
          THEN then_generate(load_model_exit(Gate, "worker"), arg["worker"])
          ELSE generate_image_exit(Gate, "worker"),
          jobs, current_job, wjob[1])

\* ------------------------------------------------- the program as wired
Init ==
    /\ InitQueue
    /\ InitGate
    /\ InitTasks
    /\ max_size = MAX_QUEUE_SIZE
    /\ process_callback = "none"

Next ==
    \/ Startup
    \/ AutoLoad
    \/ Shutdown
    \/ StopFinish
    \/ \E r \in Reqs, preset \in Presets : EditImage(r, preset)
    \/ \E r \in Reqs, key \in MODEL_CONFIGS : LoadModel(r, key)
    \/ \E r \in Reqs, preset \in Presets : SubmitJob(r, preset)
    \/ \E r \in Reqs : RequestBegin(r)
    \/ \E r \in Reqs : RequestResume(r)
    \/ \E r \in Reqs : RequestThreadDone(r)
    \/ \E r \in Reqs : RequestTimeout(r)
    \/ WorkerStart
    \/ WorkerGet
    \/ WorkerProcessMain
    \/ CallbackResume
    \/ CallbackThreadDone
    \/ ThreadStep

Spec == Init /\ [][Next]_vars

\* the same with an event loop that runs every coroutine that is ready to
\* go on; nothing is assumed of the executor threads, whose inference may
\* take any time
SpecLoop ==
    Spec /\ WF_vars(WorkerProcessMain) /\ WF_vars(CallbackResume)
         /\ WF_vars(CallbackThreadDone)

\* ================================================================ claims
QueueFullError == <<"QueueFull">>
Tracked == DOMAIN jobs

\* C1: with max_size >= 1 the FIFO never holds more than max_size entries.
C1_QueueBounded == max_size >= 1 => Len(queue) <= max_size

\* C1 witness: a full queue that has just refused a submission.
C1_Witness ==
    /\ max_size >= 1
    /\ Len(queue) = max_size
    /\ ret = QueueFullError

\* C2: a submit_job call made while the FIFO holds max_size entries raises
\* QueueFull, never suspends in put(), and leaves self.jobs and the FIFO as
\* they were.
C2_FullRefused ==
    [][/\ putters' = <<>>
       /\ (Len(queue) = max_size /\ ret' # None) =>
            (ret' = QueueFullError /\ jobs' = jobs /\ queue' = queue)]_vars

\* C2 for max_size >= 1: the same statement without the max_size = 0 case.
C2_FullRefusedFromOne ==
    [][/\ putters' = <<>>
       /\ (max_size >= 1 /\ Len(queue) = max_size /\ ret' # None) =>
            (ret' = QueueFullError /\ jobs' = jobs /\ queue' = queue)]_vars

\* every admitted job is still in the FIFO: no dequeue has happened
NothingDequeued == queue = [i \in 1..(next_id - 1) |-> i]

\* C3: while nothing has been dequeued, the k-th submit_job call succeeds for
\* k <= max_size, its job is QUEUED, registered and has position k, and the
\* (max_size+1)-th call raises QueueFull.
C3_AdmissionBurst ==
    NothingDequeued =>
        /\ \A k \in 1..(next_id - 1) :
              k \in Tracked /\ jobs[k].status = QUEUED /\ jobs[k].position = k
        /\ next_id - 1 <= max_size
        /\ ret = QueueFullError => next_id - 1 = max_size

\* C3 for max_size >= 1: the same statement without the max_size = 0 case.
C3_AdmissionBurstFromOne == max_size >= 1 => C3_AdmissionBurst

StatusRank(st) ==
    IF st = QUEUED THEN 0 ELSE IF st = PROCESSING THEN 1 ELSE 2

C5_FifoStart ==
    \A a, b \in Tracked :
        (a < b /\ jobs[b].started_at # None) =>
            /\ jobs[a].started_at # None
            /\ jobs[a].started_at[1] <= jobs[b].started_at[1]

\* C5 witness: two jobs that waited in the FIFO together have both entered
\* PROCESSING, the older one first.
C5_Witness ==
    \E a, b \in Tracked :
        /\ a < b
        /\ jobs[a].started_at # None /\ jobs[b].started_at # None
        /\ jobs[b].created_at < jobs[a].started_at[1]
        /\ jobs[a].started_at[1] < jobs[b].started_at[1]

PositionsInCreatedOrder(js) ==
    LET Q == QueuedIds(js) IN
    /\ \A j \in Q : js[j].position \in 1..Cardinality(Q)
    /\ \A a, b \in Q :
          /\ a # b => js[a].position # js[b].position
          /\ js[a].created_at < js[b].created_at => js[a].position < js[b].position

Loading == {i \in ThreadIds : Executing(threads[i], "load")}
Generating == {i \in ThreadIds : Executing(threads[i], "generate")}

\* C7: at no time is a load procedure executing while a generation
\* procedure is executing.
C7_LoadExcludesGenerate == Loading = {} \/ Generating = {}

\* C7 between procedures whose callers still await them: no deadline has
\* expired and nobody was cancelled.
C7_AwaitedLoadExcludesGenerate ==
    \A i \in Loading, j \in Generating :
        threads[i].owner = "None" \/ threads[j].owner = "None"

\* C8: at no time are two generation procedures executing at once, nor two
\* load procedures, also after the awaiting caller was cancelled or timed out.
C8_OneLoadOneGenerate == Cardinality(Loading) <= 1 /\ Cardinality(Generating) <= 1

\* C8 between procedures whose callers still await them: the locks keep
\* apart the calls that are still awaited.
C8_OneAwaitedLoadOneAwaitedGenerate ==
    /\ Cardinality({i \in Loading : threads[i].owner # "None"}) <= 1
    /\ Cardinality({i \in Generating : threads[i].owner # "None"}) <= 1

\* thread i runs the check at the top of _generate_image_sync in this step,
\* for a caller that still awaits it
ChecksLoaded(i) ==
    /\ threads[i].kind = "generate" /\ threads[i].pc = "g0"
    /\ threads[i].owner # "None"
    /\ threads'[i].pc \in {"g1", "done"}

\* task t leaves generate_image in this step with the result of its thread,
\* not by a cancellation
LeavesGenerate(t) ==
    /\ pc[t] = "gi_wait" /\ pc'[t] # "gi_wait"
    /\ \E i \in ThreadIds : threads[i].owner = t /\ threads[i].pc = "done"
    /\ ret' # <<"generate_image", t, "cancelled">>

NotLoadedError(t) == <<"generate_image", t, "NotLoaded">>

\* C9: a generate_image(key) call whose check finds no handle, or a
\* current_model other than key, fails with the not-loaded error; the failed
\* call leaves current_model and the handle as they were, is_generating
\* false and the generation lock free.
C9_NotLoadedFails ==
    [][/\ \A i \in ThreadIds :
            (ChecksLoaded(i) /\ (pipeline = "None" \/ current_model # threads[i].key))
                => threads'[i].res = "NotLoaded"
       /\ \A t \in Callers :
            (LeavesGenerate(t) /\ threads[ThreadOf(Gate, t)].res = "NotLoaded")
                => /\ ret' = NotLoadedError(t)
                   /\ current_model' = current_model
                   /\ pipeline' = pipeline
                   /\ ~is_generating'
                   /\ ~generation_lock'.locked]_vars

\* C9 while the pipeline attribute exists: the same statement for checks
\* that find the attribute, set to None or to a handle.
C9_NotLoadedFailsWithAttribute ==
    [][/\ \A i \in ThreadIds :
            (/\ ChecksLoaded(i)
             /\ pipeline # "deleted"
             /\ (pipeline = "None" \/ current_model # threads[i].key))
                => threads'[i].res = "NotLoaded"
       /\ \A t \in Callers :
            (LeavesGenerate(t) /\ threads[ThreadOf(Gate, t)].res = "NotLoaded")
                => /\ ret' = NotLoadedError(t)
                   /\ current_model' = current_model
                   /\ pipeline' = pipeline
                   /\ ~is_generating'
                   /\ ~generation_lock'.locked]_vars

InGenerate(p) == p \in {"gi_lock", "gi_wait"}

\* C10: no task goes into generate_image while is_generating is reported
\* true, and no task is ever suspended waiting for the generation lock: a
\* second generate request is refused as busy, on the edit path and in the
\* queue worker.
C10_SecondGenerateRefused ==
    [][\A t \in Tasks :
          /\ (~InGenerate(pc[t]) /\ InGenerate(pc'[t])) => ~is_generating
          /\ pc'[t] # "gi_lock"]_vars

\* C10 on the edit path alone, up to the hand-over to wait_for: a request
\* never passes the busy check while is_generating is reported true.
C10_EditCheckedWhenEntering ==
    [][\A r \in Reqs :
          (pc[r] = "idle" /\ pc'[r] = "call" /\ kind'[r] = "edit")
              => ~is_generating /\ ~is_loading]_vars

\* request r passes the busy checks of the load-model handler in this step
PassesLoadCheck(r) == pc[r] = "idle" /\ pc'[r] = "call" /\ kind'[r] = "load"

\* C11: a load-model request made while a load or a generation is in flight
\* is refused; one that passes the busy checks takes the model lock without
\* waiting behind a holder or a waiter.
C11_LoadRequestRefusedOrFree ==
    [][\A r \in Reqs :
          /\ PassesLoadCheck(r) => (Loading = {} /\ Generating = {})
          /\ kind'[r] = "load" => pc'[r] # "lm_lock"]_vars

\* C11 for the flags alone: a load-model request that passes the busy checks
\* saw is_loading and is_generating false.
C11_LoadCheckedWhenEntering ==
    [][\A r \in Reqs : PassesLoadCheck(r) => (~is_loading /\ ~is_generating)]_vars

Terminal(st) == st \in {COMPLETED, FAILED}

\* the ids submit_job has handed out
Admitted == 1..(next_id - 1)

\* seconds since the job reached its terminal status
Age(j) == now - jobs[j].completed_at[1]

\* C12: every job a step removes from self.jobs is COMPLETED or FAILED at
\* that moment; a QUEUED or PROCESSING job is never removed, whatever its age.
C12_ReaperOnlyTerminal ==
    [][\A j \in Tracked : j \notin DOMAIN jobs' => Terminal(jobs[j].status)]_vars

\* C12 witness: a job has been reaped while a job older than the retention
\* window, still QUEUED or PROCESSING, stays tracked.
C12_Witness ==
    /\ \E j \in Admitted : j \notin Tracked
    /\ \E j \in Tracked :
          /\ jobs[j].status \in {QUEUED, PROCESSING}
          /\ now - jobs[j].created_at > cleanup_age_seconds

\* C13: a COMPLETED or FAILED job whose age has reached the retention window
\* is eventually absent from self.jobs, as long as the reaper task exists.
\* (The clock of the model stops at MaxTime: a job whose age equals the
\* window at the stopped clock is left out.)
C13_TerminalEventuallyReaped ==
    \A j \in JobIds :
        (/\ j \in Tracked
         /\ Terminal(jobs[j].status)
         /\ Age(j) >= cleanup_age_seconds
         /\ (Age(j) > cleanup_age_seconds \/ now < MaxTime))
        ~> (j \notin Tracked \/ pc["cleanup"] # "sleep")

\* C13 witness: a job that was terminal has been reaped while the reaper
\* task is alive and another terminal job is still within the window.
C13_Witness ==
    /\ pc["cleanup"] = "sleep"
    /\ \E j \in Admitted : j \notin Tracked
    /\ \E j \in Tracked : Terminal(jobs[j].status) /\ Age(j) < cleanup_age_seconds

\* C14: a terminal job younger than the retention window is not removed and
\* get_job returns it; once a job has been removed get_job returns None for
\* its id from then on.
C14_RetainedThenGone ==
    [][/\ \A j \in Tracked :
            (Terminal(jobs[j].status) /\ Age(j) < cleanup_age_seconds)
                => get_job(jobs', j) # None
       /\ \A j \in Admitted :
            get_job(jobs, j) = None => get_job(jobs', j) = None]_vars

\* C14 witness: one job has been reaped, and a terminal job younger than the
\* window has been through a sweep and is still there.
C14_Witness ==
    /\ \E j \in Admitted : get_job(jobs, j) = None
    /\ \E j \in Tracked :
          /\ Terminal(jobs[j].status)
          /\ Age(j) < cleanup_age_seconds
          /\ get_job(jobs, j) # None

\* submit_job returned the Job with id j in this step
Submitted(j) == ret' = <<"job", j>>

\* a worker task exists and its `while self._running` loop goes on
WorkerLooping == ~WorkerDone /\ running

\* C15: after every successful submit_job the job is registered in the
\* lookup table under its id and a worker loop is active: a worker task
\* exists that is still looping, whether or not start() has been called
\* and also after stop() has returned.
C15_SubmitEnsuresWorker ==
    [][\A j \in JobIds :
          Submitted(j) => (get_job(jobs', j) # None /\ WorkerLooping')]_vars

\* what submit_job does ensure: the job is registered QUEUED and a worker
\* task exists, which may be one that leaves its loop at once
C15_SubmitRegistersAndCreatesTask ==
    [][\A j \in JobIds :
          Submitted(j) => /\ get_job(jobs', j) # None
                          /\ jobs'[j].status = QUEUED
                          /\ ~WorkerDone']_vars

\* the worker holds job j between its dequeue and the end of the
\* processing function
InFlight(j) == wjob = Some(j) /\ pc["worker"] \in {"got", "cb"} \cup GatePcs

\* the worker is back at the top of its loop, or its task has ended
WorkerLeft == pc["worker"] \in {"poll", "none"}

\* C16: every job that enters PROCESSING reaches COMPLETED or FAILED when
\* the processing function returns, raises or is cancelled, the
\* cancellation of the worker by stop() included: when the worker is done
\* with the job, the job is terminal.
C16_ProcessingEndsTerminal ==
    [][\A j \in Tracked :
          (InFlight(j) /\ WorkerLeft')
              => (j \in DOMAIN jobs' /\ Terminal(jobs'[j].status))]_vars

\* the same for every end of the processing function but a cancellation
\* by stop()
C16_UncancelledEndsTerminal ==
    [][\A j \in Tracked :
          (InFlight(j) /\ WorkerLeft' /\ running' = running)
              => (j \in DOMAIN jobs' /\ Terminal(jobs'[j].status))]_vars

\* the worker awaits generate_image for job j
Generates(j) == wjob = Some(j) /\ pc["worker"] = "gi_wait"

\* C17: when the generation invoked for a queued job does not finish
\* within the generation deadline, the job becomes FAILED, it does not stay
\* PROCESSING, and the worker loop goes on to the next queued job: while the
\* server runs, a job whose generation is awaited becomes terminal and the
\* worker leaves the await however long the inference takes.
C17_GenerationDeadlineFailsJob ==
    \A j \in JobIds :
        Generates(j) ~> \/ ~running
                        \/ j \in Tracked /\ Terminal(jobs[j].status) /\ ~Generates(j)

\* complete_job(id, path, seed) / fail_job(id, msg) was called in this step
Completes(id, path, seed) == ret' = <<"complete_job", id, path, seed>>
Fails(id, msg) == ret' = <<"fail_job", id, msg>>

\* current_job is cleared if and only if job id was the current job
ClearedIffCurrent(id) ==
    current_job' = IF current_job = Some(id) THEN None ELSE current_job

\* C18: complete_job(id, path, seed) on a tracked job sets its status to
\* COMPLETED, sets completed_at, records result_path = path and
\* result_seed = seed, and clears current_job if and only if that job was
\* the current job; fail_job(id, msg) does the same with status FAILED and
\* error = msg.
C18_TerminalTransitions ==
    [][\A id \in Tracked :
          /\ \A path \in CallPaths, seed \in CallSeeds :
                Completes(id, path, seed) =>
                    /\ get_job(jobs', id) # None
                    /\ jobs'[id].status = COMPLETED
                    /\ jobs'[id].completed_at = Some(now)
                    /\ jobs'[id].result_path = Some(path)
                    /\ jobs'[id].result_seed = Some(seed)
                    /\ ClearedIffCurrent(id)
          /\ \A msg \in CallErrors :
                Fails(id, msg) =>
                    /\ get_job(jobs', id) # None
                    /\ jobs'[id].status = FAILED
                    /\ jobs'[id].completed_at = Some(now)
                    /\ jobs'[id].error = Some(msg)
                    /\ ClearedIffCurrent(id)]_vars

\* C18 witness: complete_job has just completed the job the worker was
\* processing, with the second seed, and current_job is cleared.
C18_Witness ==
    \E id \in Tracked :
        /\ ret = <<"complete_job", id, "/out/b.png", 7>>
        /\ jobs[id].status = COMPLETED
        /\ jobs[id].result_seed = Some(7)
        /\ jobs[id].error = None
        /\ wjob = Some(id) /\ pc["worker"] = "cb"
        /\ current_job = None

\* C19: complete_job and fail_job called with an id that is not in the
\* lookup table (never admitted, or already reaped) change nothing: the
\* jobs' fields, the lookup table, the queue and current_job are as they
\* were; and a terminal transition of a job that is not the current job
\* leaves current_job as it was.
C19_UnknownIdNoOp ==
    [][\A id \in JobIds :
          (\/ \E path \in CallPaths, seed \in CallSeeds : Completes(id, path, seed)
           \/ \E msg \in CallErrors : Fails(id, msg))
          => /\ id \notin Tracked =>
                   (jobs' = jobs /\ queue' = queue /\ current_job' = current_job)
             /\ current_job # Some(id) => current_job' = current_job]_vars

\* C19 witness: fail_job has just been called for a job that was reaped,
\* while another job is the current one.
C19_Witness ==
    \E id \in Admitted \ Tracked :
        /\ ret = <<"fail_job", id, "late">>
        /\ current_job # None
        /\ current_job[1] \in Tracked
        /\ jobs[current_job[1]].status = PROCESSING

\* the worker, holding a dequeued job, runs lines 187-208 in this step
WorkerIterates == pc["worker"] = "got" /\ pc'["worker"] # "got"

\* C20: when the worker dequeues a job and no processing function is
\* configured, the job reaches FAILED with the configuration-error message
\* in the same worker iteration, it is never left in PROCESSING, and
\* current_job is cleared.
C20_NoCallbackFailsAtOnce ==
    [][process_callback = "none" =>
          /\ WorkerIterates =>
                /\ get_job(jobs', wjob[1]) # None
                /\ jobs'[wjob[1]].status = FAILED
                /\ jobs'[wjob[1]].error = Some(NoCallbackError)
                /\ jobs'[wjob[1]].completed_at = Some(now)
                /\ current_job' = None
          /\ \A j \in DOMAIN jobs' : jobs'[j].status # PROCESSING]_vars

\* C20 witness: with no processing function, the worker has failed a job
\* with the configuration error and is back at the top of its loop.
C20_Witness ==
    /\ process_callback = "none"
    /\ pc["worker"] = "poll"
    /\ current_job = None
    /\ \E j \in Tracked : /\ jobs[j].status = FAILED
                           /\ jobs[j].error = Some(NoCallbackError)
                           /\ wjob = Some(j)

\* the call the worker's callback awaits has raised e in its thread, and
\* the callback has not gone on yet
CallbackCallRaised(e) ==
    /\ pc["worker"] \in {"lm_wait", "gi_wait"}
    /\ ThreadDone(Gate, "worker")
    /\ threads[ThreadOf(Gate, "worker")].res = e
    /\ e # "ok"

\* the worker's coroutine runs in this step, and not because stop()
\* cancels it
WorkerRuns == pc'["worker"] # pc["worker"] /\ running' = running

\* C21: when the processing of a job raises an error, the job becomes
\* FAILED with the error's message as its error text, completed_at is set
\* and current_job is cleared; the error does not leave the worker loop,
\* which is back at its `while self._running`.
C21_RaisedErrorFailsJob ==
    [][\A e \in {"LoadFailed", "GenFailed", "NotLoaded", "AttributeError"} :
          (CallbackCallRaised(e) /\ WorkerRuns) =>
              /\ get_job(jobs', wjob[1]) # None
              /\ jobs'[wjob[1]].status = FAILED
              /\ jobs'[wjob[1]].error = Some(e)
              /\ jobs'[wjob[1]].completed_at = Some(now)
              /\ current_job' = None
              /\ pc'["worker"] = IF running THEN "poll" ELSE "none"]_vars

\* C21 witness: the worker has failed its job with the error its
\* generation raised and polls the queue again.
C21_Witness ==
    /\ pc["worker"] = "poll"
    /\ current_job = None
    /\ wjob # None
    /\ wjob[1] \in Tracked
    /\ jobs[wjob[1]].status = FAILED
    /\ jobs[wjob[1]].error = Some("GenFailed")

\* job j waits in the FIFO
InQueue(j) == \E i \in 1..Len(queue) : queue[i] = j

\* the worker is handling a dequeued job
Handling == pc["worker"] \in {"got", "cb"}

\* job j has entered PROCESSING at some moment
Started(j) == j \in Tracked => jobs[j].started_at # None

Cached(key) == current_model = key /\ pipeline \notin {"None", "deleted"}

\* the call ended in S returned at once and ran no load procedure
ReturnedCached(S) ==
    /\ S.out = "ok"
    /\ S.is_loading = is_loading /\ ~S.is_loading
    /\ S.current_model = current_model
    /\ S.pipeline = pipeline
    /\ S.threads = threads
    /\ S.model_lock = FreeLock

\* C23 as stated: load_model(key) called when key is already current_model
\* and a pipeline handle exists returns immediately, without suspending and
\* without running the load procedure.
C23_CachedLoadReturnsAtOnce ==
    [][\A c \in Callers, key \in MODEL_CONFIGS :
          (pc[c] = "idle" /\ Cached(key))
              => ~(pc'[c] \in {"lm_lock", "lm_wait"} /\ arg'[c] = key)]_vars

\* C23 amended: a load_model(key) call that holds the model lock, taken at
\* once or after a wait, and then finds key to be current_model with a
\* pipeline handle returns without running the load procedure: is_loading
\* stays false, current_model, the handle and the executor are untouched and
\* the lock is free again.
C23_CachedUnderLockReturns ==
    \A c \in Callers :
        /\ \A key \in MODEL_CONFIGS :
              (pc[c] = "idle" /\ AcquireFree(model_lock) /\ Cached(key))
                  => ReturnedCached(load_model(Gate, c, key))
        /\ (pc[c] = "lm_lock" /\ Woken(model_lock, c) /\ model_lock.waiters = <<c>>
                /\ Cached(arg[c]))
              => ReturnedCached(load_model_resume(Gate, c))

\* C23 witness: a caller that waited for the model lock behind a load of
\* the same key is woken and finds the key loaded.
C23_Witness ==
    \E c \in Callers :
        /\ pc[c] = "lm_lock" /\ Woken(model_lock, c) /\ model_lock.waiters = <<c>>
        /\ Cached(arg[c])
        /\ \E d \in Callers : ret = <<"load_model", d, "ok">>

\* thread i ends _load_model_sync normally in this step
LoadCompletes(i) ==
    /\ Executing(threads[i], "load")
    /\ threads'[i].pc = "done" /\ threads'[i].res = "ok"

\* some task is inside load_model with the model lock held
InsideLoad == \E t \in Tasks : pc[t] = "lm_wait"

\* C24: a load procedure that completes sets current_model to its key, and
\* on every exit path of load_model, the failure of the load procedure
\* included, is_loading is false and the model lock is released once the
\* call has exited: the flag and the lock are only ever set while a call is
\* inside load_model, so a later call is not blocked.
C24_LoadExitsClean ==
    [][/\ \A i \in ThreadIds : LoadCompletes(i) => current_model' = threads[i].key
       /\ (is_loading' \/ model_lock'.locked) => InsideLoad'
       /\ \A c \in Callers, out \in {"ok", "LoadFailed", "AttributeError", "cancelled"} :
             (pc[c] = "lm_wait" /\ ret' = <<"load_model", c, out>>)
                 => (~is_loading' /\ ~model_lock'.locked)]_vars

\* C24 witness: a load_model call has just exited because its load
\* procedure failed; the flag is down and the lock is free.
C24_Witness ==
    \E c \in Callers :
        /\ ret = <<"load_model", c, "LoadFailed">>
        /\ pc[c] = "idle"
        /\ ~is_loading
        /\ model_lock = FreeLock

\* some task is inside generate_image with the generation lock held
InsideGenerate == \E t \in Tasks : pc[t] = "gi_wait"

\* C25: is_generating is true for the whole duration of a generate call
\* that holds the generation lock and false again once the call has exited,
\* whether it succeeded, failed or was cancelled: at every suspension point
\* is_generating is true if and only if the generation lock is held, which
\* is when a call is inside generate_image.
C25_GeneratingIffLockHeld ==
    /\ is_generating <=> generation_lock.locked
    /\ is_generating <=> InsideGenerate

\* C25 witness: a generate call was cancelled while its thread was at
\* work; the flag is down and the lock free although the thread goes on.
C25_Witness ==
    /\ \E c \in Callers : ret = <<"generate_image", c, "cancelled">>
    /\ \E i \in ThreadIds : Executing(threads[i], "generate") /\ threads[i].owner = "None"
    /\ ~is_generating
    /\ ~generation_lock.locked

\* a step of a generate_image call: the caller enters, goes on or leaves,
\* or the thread running _generate_image_sync moves
GenerateCallStep ==
    \/ \E t \in Tasks : /\ pc'[t] # pc[t]
                         /\ (pc[t] \in {"gi_lock", "gi_wait"}
                                \/ pc'[t] \in {"gi_lock", "gi_wait"})
    \/ \E i \in ThreadIds : threads[i].kind = "generate" /\ threads'[i] # threads[i]

DuringStop == (running /\ ~running') \/ pc["stopper"] = "await_worker"

\* job j is QUEUED before this step and after it
StaysQueued(j) == get_job(jobs', j) # None /\ jobs'[j].status = QUEUED

\* C27: stop() leaves every job that is QUEUED at the time of the call in
\* state QUEUED: shutdown neither fails, completes, removes nor starts any
\* queued-but-not-started job.
C27_StopLeavesQueued ==
    [][DuringStop =>
          \A j \in Tracked : jobs[j].status = QUEUED => StaysQueued(j)]_vars

\* what stop() does leave alone: the jobs that are still in the FIFO
C27_StopLeavesFifo ==
    [][DuringStop =>
          \A j \in Tracked :
              (jobs[j].status = QUEUED /\ InQueue(j)) => (StaysQueued(j) /\ InQueue(j)')]_vars

\* stop() has returned and start() has not been called since
Stopped == ~running /\ pc["stopper"] = "idle"

\* nothing is dequeued, no job changes its status and none is removed in
\* this step
NoQueueActivity ==
    /\ wjob' = wjob
    /\ \A j \in Tracked : /\ get_job(jobs', j) # None
                           /\ jobs'[j].status = jobs[j].status
                           /\ InQueue(j) => InQueue(j)'

\* C28: after a stop signal both the worker task and the reaper task end:
\* stop() terminates, and once it has returned neither task dequeues,
\* changes a status or removes a job until start() is called; a worker task
\* a later submit_job creates leaves at once.
C28_StopEndsTasks ==
    /\ (pc["stopper"] = "await_worker") ~> Stopped
    /\ [](Stopped => (pc["cleanup"] = "none" /\ pc["worker"] \in {"none", "start"}))
    /\ [][(Stopped /\ Stopped') => NoQueueActivity]_vars

\* C28 witness: stop() has returned after the queue had been at work; both
\* tasks are gone and a job is left in the FIFO.
C28_Witness ==
    /\ Stopped
    /\ pc["worker"] = "none" /\ pc["cleanup"] = "none"
    /\ \E j \in Tracked : jobs[j].started_at # None
    /\ \E j \in Tracked : jobs[j].status = QUEUED /\ InQueue(j)

\* a timestamp that is present keeps its value
Kept(old, new) == old # None => new = old

\* the timestamps of one Job are in order where they are present
Ordered(job) ==
    /\ job.started_at # None => job.created_at <= job.started_at[1]
    /\ job.completed_at # None =>
          /\ job.created_at <= job.completed_at[1]
          /\ job.started_at # None => job.started_at[1] <= job.completed_at[1]

\* C29: each job timestamp is set exactly once and never overwritten:
\* started_at is written only on the transition from QUEUED to PROCESSING,
\* completed_at only on the transition into COMPLETED or FAILED, and
\* whenever they are present created_at <= started_at <= completed_at.
C29_TimestampsOnce ==
    [][\A j \in Tracked \cap DOMAIN jobs' :
          /\ jobs'[j].created_at = jobs[j].created_at
          /\ Kept(jobs[j].started_at, jobs'[j].started_at)
          /\ Kept(jobs[j].completed_at, jobs'[j].completed_at)
          /\ jobs'[j].started_at # None <=> jobs'[j].status # QUEUED
          /\ jobs'[j].completed_at # None <=> Terminal(jobs'[j].status)
          /\ jobs'[j].started_at # jobs[j].started_at => jobs[j].status = QUEUED
          /\ jobs'[j].completed_at # jobs[j].completed_at => ~Terminal(jobs[j].status)
          /\ Ordered(jobs'[j])]_vars

\* C29 witness: a COMPLETED job created, started and completed at three
\* different times.
C29_Witness ==
    \E j \in Tracked :
        /\ jobs[j].status = COMPLETED
        /\ jobs[j].started_at # None /\ jobs[j].completed_at # None
        /\ jobs[j].created_at < jobs[j].started_at[1]
        /\ jobs[j].started_at[1] < jobs[j].completed_at[1]

\* C30: in every reachable state and for every tracked job, the result
\* (result_path and result_seed) is present if and only if the job's status
\* is COMPLETED, and the error text is present if and only if the job's
\* status is FAILED.
C30_ResultIffCompleted ==
    \A j \in Tracked :
        /\ jobs[j].result_path # None <=> jobs[j].status = COMPLETED
        /\ jobs[j].result_seed # None <=> jobs[j].status = COMPLETED
        /\ jobs[j].error # None <=> jobs[j].status = FAILED

\* C30 witness: a COMPLETED job with its result and a FAILED job with its
\* error text, side by side.
C30_Witness ==
    \E j \in Tracked, k \in Tracked :
        /\ jobs[j].status = COMPLETED
        /\ jobs[j].result_path # None /\ jobs[j].result_seed # None
        /\ jobs[j].error = None
        /\ jobs[k].status = FAILED
        /\ jobs[k].error # None
        /\ jobs[k].result_path = None

\* a step of executor thread i inside _load_model_sync that changes the
\* pipeline handle or current_model
ThreadWritesModel(i) ==
    /\ threads[i].kind = "load"
    /\ threads'[i] # threads[i]
    /\ (pipeline' # pipeline \/ current_model' # current_model)

\* task t is inside load_model's `async with self._model_lock`, awaiting
\* the executor
HoldsModelLock(t) == t \in Tasks /\ pc[t] = "lm_wait" /\ model_lock.locked

\* C31: every write to the shared gate state happens while the
\* corresponding lock is held by the call that caused the write: a thread
\* running the load procedure writes the pipeline handle or current_model
\* only while the load_model call that started it still holds the load lock
\* (never after a cancelled or timed-out call released it), is_loading
\* changes only in a step of a call inside the load lock, and is_generating
\* only in a step of a call inside the generation lock.
C31_WritesUnderLock ==
    [][/\ \A i \in ThreadIds :
             ThreadWritesModel(i) => HoldsModelLock(threads[i].owner)
       /\ is_loading' # is_loading =>
             \E t \in Tasks :
                 \/ pc'[t] = "lm_wait" /\ pc[t] # "lm_wait" /\ model_lock'.locked
                 \/ pc[t] = "lm_wait" /\ pc'[t] # "lm_wait" /\ model_lock.locked
       /\ is_generating' # is_generating =>
             \E t \in Tasks :
                 \/ pc'[t] = "gi_wait" /\ pc[t] # "gi_wait" /\ generation_lock'.locked
                 \/ pc[t] = "gi_wait" /\ pc'[t] # "gi_wait" /\ generation_lock.locked
      ]_vars

\* the status, result and error of job id in table js
Outcome(js, id) ==
    <<js[id].status, js[id].result_path, js[id].result_seed, js[id].error>>

\* complete_job / fail_job called twice with the same arguments, at t and
\* at a later u, leaves the status, result and error of calling it once
SecondCallSameOutcome(id) ==
    \A t \in now..MaxTime, u \in now..MaxTime :
        t <= u =>
            /\ \A path \in CallPaths, seed \in CallSeeds :
                  LET once == complete_job_jobs(jobs, id, path, seed, t) IN
                  Outcome(complete_job_jobs(once, id, path, seed, u), id)
                      = Outcome(once, id)
            /\ \A msg \in CallErrors :
                  LET once == fail_job_jobs(jobs, id, msg, t) IN
                  Outcome(fail_job_jobs(once, id, msg, u), id) = Outcome(once, id)

\* C32: a second terminal transition on an already-terminal job is
\* accepted: after complete_job or fail_job is called on a job that is
\* already COMPLETED or FAILED, the job's status and the fields that call
\* writes are those of the latest call; and calling the same terminal
\* transition twice with the same arguments leaves the same status, result
\* and error as calling it once.
C32_SecondTransitionOverwrites ==
    /\ [][\A id \in Tracked :
             Terminal(jobs[id].status) =>
                /\ \A path \in CallPaths, seed \in CallSeeds :
                      Completes(id, path, seed) =>
                          /\ jobs'[id].status = COMPLETED
                          /\ jobs'[id].completed_at = Some(now)
                          /\ jobs'[id].result_path = Some(path)
                          /\ jobs'[id].result_seed = Some(seed)
                /\ \A msg \in CallErrors :
                      Fails(id, msg) =>
                          /\ jobs'[id].status = FAILED
                          /\ jobs'[id].completed_at = Some(now)
                          /\ jobs'[id].error = Some(msg)]_vars
    /\ [](\A id \in Tracked : SecondCallSameOutcome(id))

\* C32 witness: fail_job has just been called on a job that complete_job
\* had completed: the job is FAILED with the new error and still carries
\* the result of the earlier call.
C32_Witness ==
    \E id \in Tracked :
        /\ ret = <<"fail_job", id, "late">>
        /\ jobs[id].status = FAILED
        /\ jobs[id].error = Some("late")
        /\ jobs[id].result_path # None

\* the processing function awaited for job j ends in this step and the
\* worker goes on; complete_job always records a result path and fail_job
\* an error text, so a job with neither had no terminal call
ReturnsWithoutTransition(j) ==
    /\ pc["worker"] = "cb" /\ wjob = Some(j)
    /\ pc'["worker"] # "cb"
    /\ running' = running
    /\ j \in DOMAIN jobs'
    /\ jobs'[j].result_path = None /\ jobs'[j].error = None

\* job j is PROCESSING and current, and the worker is not awaiting its
\* processing function
LeftProcessing(j) ==
    /\ jobs[j].status = PROCESSING
    /\ current_job = Some(j)
    /\ ~(pc["worker"] = "cb" /\ wjob = Some(j))

\* C33: the worker loop does not infer success: if the processing function
\* returns normally without calling complete_job or fail_job for the job,
\* the job stays PROCESSING and remains current_job, until the worker has
\* dequeued the next job and makes that one current.
C33_NoInferredSuccess ==
    [][\A j \in Tracked :
          /\ ReturnsWithoutTransition(j) =>
                /\ jobs'[j] = jobs[j]
                /\ jobs'[j].status = PROCESSING
                /\ current_job' = Some(j)
          /\ LeftProcessing(j) =>
                /\ j \in DOMAIN jobs'
                /\ jobs'[j].status = PROCESSING
                /\ current_job' # current_job =>
                      /\ pc["worker"] = "got"
                      /\ wjob # Some(j)
                      /\ current_job' = wjob]_vars

\* C33 witness: the processing function has returned for the job the
\* worker took, the worker is back at the queue, and the job is still
\* PROCESSING and current, with no result and no error.
C33_Witness ==
    \E j \in Tracked :
        /\ pc["worker"] = "poll"
        /\ wjob = Some(j)
        /\ jobs[j].status = PROCESSING
        /\ current_job = Some(j)
        /\ jobs[j].result_path = None /\ jobs[j].error = None
        /\ process_callback = "generic"

\* the tracked jobs whose status is PROCESSING
ProcessingIds == {j \in Tracked : jobs[j].status = PROCESSING}

\* C34: at most one job is PROCESSING at any time, and current_job is set
\* exactly when a job is PROCESSING and then names that job; across every
\* sequence of submit, dequeue, terminal transition, stop() and start()
\* followed by further submissions.
C34_OneProcessing ==
    /\ Cardinality(ProcessingIds) <= 1
    /\ current_job # None <=> ProcessingIds # {}
    /\ current_job # None => current_job[1] \in ProcessingIds

\* C34, for a JobQueue with no processing function: every dequeued job is
\* failed in the step that dequeues it.
C34_OneProcessingNoCallback ==
    process_callback = "none" => C34_OneProcessing

\* executor thread i runs the generation the callback awaits for the job
\* the worker took, and has read the handle it infers with (line 262)
WorkerGenerates(i) ==
    /\ threads[i].kind = "generate"
    /\ threads[i].owner = "worker"
    /\ threads[i].pc = "g1"
    /\ wjob # None /\ wjob[1] \in Tracked

\* C35: every queued job the worker processes is generated with the
\* variant recorded on the job at admission: the generation started for it
\* asks for the job's variant, passes the loaded check only while
\* current_model is that variant, and infers with the pipeline that was
\* built for that variant, never with another variant's pipeline.
C35_GeneratedWithOwnVariant ==
    \A i \in ThreadIds :
        WorkerGenerates(i) =>
            /\ jobs[wjob[1]].model = Some(threads[i].key)
            /\ jobs[wjob[1]].model = Some(threads[i].pipe)

\* C35, the part about the key: the generation the callback starts is
\* asked for the variant recorded on the job, and passes the loaded check
\* only when current_model is that variant.
C35_GenerateAskedForOwnVariant ==
    [][\A i \in ThreadIds :
          (WorkerGenerates(i)' /\ ~WorkerGenerates(i)) =>
              /\ jobs[wjob[1]].model = Some(threads[i].key)
              /\ current_model = threads[i].key]_vars

\* C36: in every reachable state the pipeline handle and current_model
\* agree: current_model is none exactly when no pipeline handle exists, and
\* otherwise the handle is the pipeline that was loaded for current_model;
\* also after a load procedure has failed part-way.
C36_HandleAgreesWithCurrent ==
    /\ current_model = "None" <=> pipeline \in {"None", "deleted"}
    /\ current_model # "None" => pipeline = current_model

\* C36, while no thread is inside the load procedure
C36_HandleAgreesOutsideLoad ==
    (\A i \in ThreadIds : ~Executing(threads[i], "load")) =>
        C36_HandleAgreesWithCurrent

\* get_queue_status: "queue_size" and "queued_count"
queue_size == Len(queue)
queued_count == Cardinality({j \in Tracked : jobs[j].status = QUEUED})

\* C37: in every reachable state the number of entries in the FIFO
\* (queue_size) equals the number of tracked jobs whose status is QUEUED
\* (queued_count), and every entry of the FIFO is a tracked job in state
\* QUEUED.
C37_QueueSizeIsQueuedCount ==
    /\ queue_size = queued_count
    /\ \A n \in 1..Len(queue) :
          queue[n] \in Tracked /\ jobs[queue[n]].status = QUEUED

\* C37, except for the job that queue.get() has handed over and whose
\* status the worker has not yet set: the FIFO holds exactly the other
\* QUEUED jobs
C37_CountsAgreeButForDequeued ==
    LET taken == IF pc["worker"] = "got" THEN {wjob[1]} ELSE {} IN
    /\ \A n \in 1..Len(queue) :
          queue[n] \in Tracked /\ jobs[queue[n]].status = QUEUED
    /\ {queue[n] : n \in 1..Len(queue)} \cup taken
          = {j \in Tracked : jobs[j].status = QUEUED}
    /\ queue_size + Cardinality(taken) = queued_count

\* the jobs of Q carry the positions 1..k, k the size of Q, in admission
\* order (ids are drawn in admission order)
NumberedInAdmissionOrder(Q) ==
    /\ {jobs[j].position : j \in Q} = 1..Cardinality(Q)
    /\ \A a, b \in Q : a < b => jobs[a].position < jobs[b].position

\* C38: in every reachable state, across any interleaving of submissions
\* and dequeues, the positions of the jobs currently QUEUED are pairwise
\* distinct and are exactly 1..k in admission order, k being the number of
\* QUEUED jobs; the position given at submission (queue length + 1) agrees
\* with the positions recomputed at dequeue.
C38_PositionsOneToK == NumberedInAdmissionOrder(QueuedIds(jobs))

\* C38, whenever the worker is not between queue.get() handing a job over
\* and the change of that job's status
C38_PositionsOutsideDequeue ==
    pc["worker"] # "got" => NumberedInAdmissionOrder(QueuedIds(jobs))

\* C39: the capacity bound holds for every configured max_size, max_size = 0
\* included: the FIFO never holds more than max_size entries, so a queue
\* configured with max_size = 0 admits nothing and every submission to it
\* ends with the capacity error.
C39_BoundedForEveryMaxSize ==
    /\ Len(queue) <= max_size
    /\ max_size = 0 => (next_id = 1 /\ ret \in {None, QueueFullError})

\* the load_model call of caller c ends in this step with the
\* invalid-model error
InvalidModelRaised(c) == ret' = <<"load_model", c, "ValueError">>

\* C40: load_model called with a key that is not one of the configured
\* variants fails with the invalid-model error before any loading starts
\* and leaves the gate state unchanged: is_loading stays false,
\* current_model and the pipeline handle are unchanged, no load procedure
\* is started, and the load lock is released; such a call ends in no other
\* way, unless it is cancelled while it waits for the lock.
C40_InvalidKeyRefused ==
    /\ [][\A c \in Callers :
             /\ InvalidModelRaised(c) =>
                   /\ ~is_loading /\ ~is_loading'
                   /\ current_model' = current_model
                   /\ pipeline' = pipeline
                   /\ threads' = threads
                   /\ ~model_lock'.locked
                   /\ pc'[c] = "idle"
             /\ (pc[c] = "lm_lock" /\ arg[c] \notin MODEL_CONFIGS
                 /\ pc'[c] # "lm_lock") =>
                   ret' \in {<<"load_model", c, "ValueError">>,
                             <<"load_model", c, "cancelled">>}]_vars
    /\ [](\A c \in Callers : pc[c] = "lm_wait" => arg[c] \in MODEL_CONFIGS)

\* C40 witness: a load_model call with an unknown key has just been refused
\* while a model is loaded; the handle and current_model are those of the
\* loaded model and the lock is free.
C40_Witness ==
    \E c \in Callers :
        /\ ret = <<"load_model", c, "ValueError">>
        /\ current_model \in MODEL_CONFIGS
        /\ pipeline = current_model
        /\ ~is_loading
        /\ model_lock = FreeLock
====
